---- MODULE Spec2Model ----
(***************************************************************************)
(* Model of the tally backend: the control repository (ControlService),    *)
(* the tabular aggregation engine (TabularService), the pydantic schemas   *)
(* they construct, and the processing-status transition table.             *)
(*                                                                         *)
(* Strings are sequences of one-character strings, so that strip(),        *)
(* lower(), endswith() and the composite key concatenation are computed.   *)
(* A handler that awaits the object store more than once is one action per *)
(* await: other requests run between them.                                 *)
(***************************************************************************)
EXTENDS Naturals, Sequences, FiniteSets, TLC

VARIABLES
    controls,      \* bucket "controls": control id -> stored metadata.json
    documents,     \* bucket "documents": document id -> stored record
    ai_responses,  \* bucket "ai_responses": <<document id, control id>> -> stored record
    clock,         \* number of datetime.utcnow() readings taken so far
    upd,           \* the update_control / set_control_status call between its read and its write
    rdr,           \* the get_tabular_view / get_processing_status call between its reads
    ret,           \* what the step taken last returned to its caller, Running if it finished no call
    deleted,       \* ids for which delete_control returned True while the record existed
    upload,        \* the upload_multiple_documents call in progress, and the blobs stored
    batch          \* the process_multiple_documents call in progress: its units and semaphore

vars == <<controls, documents, ai_responses, clock, upd, rdr, ret, deleted, upload, batch>>

-----------------------------------------------------------------------------
(* Bounds of the model *)

\* every write stamps its record with utcnow(); runs stop after MaxClock readings
MaxClock == 3

-----------------------------------------------------------------------------
(* Python values *)

None == <<"None">>

PENDING == "pending"
PROCESSING == "processing"
COMPLETED == "completed"
FAILED == "failed"
REGENERATING == "regenerating"

ProcessingStatus == {PENDING, PROCESSING, COMPLETED, FAILED, REGENERATING}

is_terminal_status(status) == status \in {COMPLETED, FAILED}

is_active_status(status) == status \in {PROCESSING, REGENERATING}

-----------------------------------------------------------------------------
(* str methods *)

LowerChar(ch) == IF ch = "A" THEN "a" ELSE IF ch = "B" THEN "b" ELSE ch

lower(s) == [i \in 1..Len(s) |-> LowerChar(s[i])]

RECURSIVE lstrip(_)
lstrip(s) == IF s # <<>> /\ Head(s) = " " THEN lstrip(Tail(s)) ELSE s

RECURSIVE rstrip(_)
rstrip(s) == IF s # <<>> /\ s[Len(s)] = " " THEN rstrip(SubSeq(s, 1, Len(s) - 1)) ELSE s

strip(s) == rstrip(lstrip(s))

endswith(s, suffixes) == s # <<>> /\ s[Len(s)] \in suffixes

\* q in s
contains(q, s) ==
    \E k \in 0..Len(s) : k + Len(q) <= Len(s) /\ SubSeq(s, k + 1, k + Len(q)) = q

-----------------------------------------------------------------------------
(* schemas.py: the control schemas.  A model is [ok |-> TRUE, ...fields] or  *)
(* Invalid, the ValidationError pydantic raises.                           *)

TitleMaxLength == 255

Invalid == [ok |-> FALSE]

\* StringConstraints(min_length=1, strip_whitespace=True): the stripped value, or Invalid
NonEmptyStr(v) ==
    LET w == strip(v) IN IF Len(w) >= 1 THEN [ok |-> TRUE, value |-> w] ELSE Invalid

ControlTitle(v) ==
    LET w == strip(v)
    IN  IF Len(w) >= 1 /\ Len(w) <= TitleMaxLength THEN [ok |-> TRUE, value |-> w] ELSE Invalid

OptionalNonEmptyStr(v) == IF v = None THEN [ok |-> TRUE, value |-> None] ELSE NonEmptyStr(v)

\* a normalisation that takes only '?' for a final mark
validate_prompt_format_question(v) ==
    LET w == strip(v) IN IF endswith(w, {"?"}) THEN w ELSE Append(w, "?")

validate_prompt_format(v) ==
    LET w == strip(v) IN IF endswith(w, {"?", ".", "!"}) THEN w ELSE Append(w, "?")

\* TRUE when the model validator passes, FALSE when it raises ValueError
validate_title_prompt_consistency(title, prompt) ==
    lower(strip(title)) # lower(strip(prompt))

\* ControlBase: field validation, then the prompt validator, then the model validator
ControlBase(title, description, prompt) ==
    LET t == ControlTitle(title)
        d == OptionalNonEmptyStr(description)
        p == NonEmptyStr(prompt)
    IN  IF ~(t.ok /\ d.ok /\ p.ok) THEN Invalid
        ELSE LET q == validate_prompt_format(p.value)
             IN  IF validate_title_prompt_consistency(t.value, q)
                 THEN [ok |-> TRUE, title |-> t.value, description |-> d.value, prompt |-> q]
                 ELSE Invalid

ControlCreate(title, description, prompt) == ControlBase(title, description, prompt)

\* ControlResponse(**kwargs) and ControlResponse.model_validate(metadata)
ControlResponse(id, title, description, prompt, is_active, created_at, updated_at) ==
    LET b == ControlBase(title, description, prompt)
    IN  IF b.ok /\ is_active \in BOOLEAN
        THEN [ok |-> TRUE, id |-> id, title |-> b.title, description |-> b.description,
              prompt |-> b.prompt, is_active |-> is_active, created_at |-> created_at,
              updated_at |-> updated_at]
        ELSE Invalid

\* model_dump(): the stored metadata of a control.  The store is taken to hand
\* back these fields as model_validate's input; the computed status_display is
\* derived from is_active and carried by no record here.
model_dump(c) == [id |-> c.id, title |-> c.title, description |-> c.description,
                  prompt |-> c.prompt, is_active |-> c.is_active,
                  created_at |-> c.created_at, updated_at |-> c.updated_at]

model_validate(m) ==
    ControlResponse(m.id, m.title, m.description, m.prompt, m.is_active, m.created_at,
                    m.updated_at)

UpdateFields == {"title", "description", "prompt", "is_active"}

Unset(data, f) == f \notin DOMAIN data \/ (f # "is_active" /\ data[f] = None)

\* ControlUpdate(**data): each provided field validated; at least one must not be None.
\* The result keeps exactly the provided fields (model_dump(exclude_unset=True)).
ControlUpdate(data) ==
    LET t == IF Unset(data, "title") THEN [ok |-> TRUE, value |-> None]
             ELSE ControlTitle(data.title)
        d == IF Unset(data, "description") THEN [ok |-> TRUE, value |-> None]
             ELSE NonEmptyStr(data.description)
        p == IF Unset(data, "prompt") THEN [ok |-> TRUE, value |-> None]
             ELSE NonEmptyStr(data.prompt)
        value(f) == IF f = "title" THEN t.value
                    ELSE IF f = "description" THEN d.value
                    ELSE IF f = "prompt"
                         THEN (IF p.value = None THEN None ELSE validate_prompt_format(p.value))
                    ELSE data[f]
    IN  IF ~(t.ok /\ d.ok /\ p.ok) THEN Invalid
        ELSE IF \A f \in UpdateFields : Unset(data, f) THEN Invalid
        ELSE [ok |-> TRUE, update_data |-> [f \in DOMAIN data |-> value(f)]]

\* a copy that takes the fields given and the defaults for the others
model_copy_defaults(control, update_data) ==
    [f \in DOMAIN control |->
        IF f \in DOMAIN update_data THEN update_data[f]
        ELSE IF f = "is_active" THEN TRUE
        ELSE IF f = "description" THEN None
        ELSE control[f]]

\* control.model_copy(update=update_data): fields replaced, nothing validated
model_copy(control, update_data) ==
    [f \in DOMAIN control |-> IF f \in DOMAIN update_data THEN update_data[f] ELSE control[f]]

\* an assignment that validates nothing
setattr_unvalidated(control, field, value) == [control EXCEPT ![field] = value]

\* validate_assignment=True: assigning a field validates it and runs the model's
\* after-validator on the whole record; the result is the record or Invalid.
\* A title or prompt of None makes the validator raise as well (None has no lower()).
setattr(control, field, value) ==
    LET c == [control EXCEPT ![field] = value]
    IN  IF c.title = None \/ c.prompt = None THEN Invalid
        ELSE IF validate_title_prompt_consistency(c.title, c.prompt)
             THEN [c EXCEPT !.ok = TRUE]
             ELSE Invalid

-----------------------------------------------------------------------------
(* The object store adapter the services call (upsert_metadata, get_metadata, *)
(* list_files, delete_folder): one object per key, no transactions.           *)

upsert_metadata(bucket, path, metadata) == (path :> metadata) @@ bucket

\* the stored object, or NotFound (get_metadata raises)
NotFound == [ok |-> FALSE]

get_metadata(bucket, path) == IF path \in DOMAIN bucket THEN bucket[path] ELSE NotFound

\* every object of the bucket; the entries come in no particular order
list_files(bucket) == {bucket[k] : k \in DOMAIN bucket}

\* removes the objects under the prefix, in this bucket only
delete_folder(bucket, path) == [k \in DOMAIN bucket \ {path} |-> bucket[k]]

Digits == <<"1", "2", "3", "4", "5", "6", "7", "8", "9">>

\* str(uuid.uuid4()): an identifier never handed out before (now is read once per id)
uuid4(prefix, now) == <<prefix, Digits[now]>>

\* an identifier no create ever returned
UnknownId == <<"9", "9">>

\* sorted(records, key=created_at) without reverse: oldest first
RECURSIVE sorted_asc(_)
sorted_asc(S) ==
    IF S = {} THEN <<>>
    ELSE LET first == CHOOSE x \in S : \A y \in S : x.created_at <= y.created_at
         IN  <<first>> \o sorted_asc(S \ {first})

\* sorted(records, key=created_at, reverse=True)
RECURSIVE sorted_desc(_)
sorted_desc(S) ==
    IF S = {} THEN <<>>
    ELSE LET first == CHOOSE x \in S : \A y \in S : y.created_at <= x.created_at
         IN  <<first>> \o sorted_desc(S \ {first})

-----------------------------------------------------------------------------
(* controls/service.py *)

Idle == [pc |-> "idle"]

\* no batch upload has been asked for, no blob is stored
NoUpload == [pc |-> "idle", stored |-> {}]

\* no batch evaluation has been asked for
NoBatch == [pc |-> "idle"]

Returned(op, id, out) == [op |-> op, id |-> id, out |-> out]

\* the step taken last finished no call
Running == Returned("none", UnknownId, "none")

\* utcnow() readings an admitted call is still going to take
Owed == IF upd.pc = "idle" THEN 0 ELSE 1

get_control(store, control_id) ==
    LET metadata == get_metadata(store, control_id)
    IN  IF metadata = NotFound THEN Invalid ELSE model_validate(metadata)

\* list_controls without its filter on is_active
list_controls_unfiltered(store, include_inactive) ==
    LET valid == {model_validate(m) : m \in list_files(store)} \ {Invalid}
    IN  sorted_desc(valid)

list_controls(store, include_inactive) ==
    LET valid == {model_validate(m) : m \in list_files(store)} \ {Invalid}
    IN  sorted_desc({c \in valid : include_inactive \/ c.is_active})

get_active_controls(store) == list_controls(store, FALSE)

\* the caller builds the ControlCreate (a body that fails its validation never
\* reaches the service), then create_control runs to its end
create_control(title, description, prompt) ==
    LET control_data == ControlCreate(title, description, prompt)
        now == clock + 1
        control_id == uuid4("c", now)
    IN  /\ clock + Owed < MaxClock
        /\ IF ~control_data.ok
           THEN /\ ret' = Returned("ControlCreate", UnknownId, "ValidationError")
                /\ UNCHANGED <<controls, clock>>
           ELSE LET control == ControlResponse(control_id, control_data.title,
                                               control_data.description, control_data.prompt,
                                               TRUE, now, now)
                IN  /\ controls' = upsert_metadata(controls, control_id, model_dump(control))
                    /\ clock' = now
                    /\ ret' = Returned("create_control", control_id, "control")
        /\ UNCHANGED <<documents, ai_responses, upd, rdr, deleted, upload, batch>>

\* the condition of search_controls on one control: None.lower() raises
\* AttributeError, and `or` stops at the first operand that holds
search_matches(control, query) ==
    IF contains(query, lower(control.title)) THEN [raised |-> FALSE, keep |-> control.is_active]
    ELSE IF control.description = None THEN [raised |-> TRUE, keep |-> FALSE]
    ELSE [raised |-> FALSE,
          keep |-> /\ \/ contains(query, lower(control.description))
                         \/ contains(query, lower(control.prompt))
                   /\ control.is_active]

RECURSIVE comprehension(_, _)
comprehension(listed, query) ==
    IF listed = <<>> THEN <<>>
    ELSE IF search_matches(Head(listed), query).keep
         THEN <<Head(listed)>> \o comprehension(Tail(listed), query)
         ELSE comprehension(Tail(listed), query)

search_controls(q) ==
    LET listed == list_controls(controls, TRUE)
        query == lower(q)
        raised == \E i \in 1..Len(listed) : search_matches(listed[i], query).raised
    IN  /\ ret' = [op |-> "search_controls", id |-> UnknownId,
                   out |-> IF raised THEN "AttributeError" ELSE "list",
                   query |-> q, store |-> controls,
                   result |-> IF raised THEN <<>> ELSE comprehension(listed, query)]
        /\ UNCHANGED <<controls, documents, ai_responses, clock, upd, rdr, deleted, upload, batch>>

\* a request body with this prompt is turned into a ControlCreate
read_validate_prompt_format(prompt) ==
    /\ ret' = [op |-> "validate_prompt_format", id |-> UnknownId, out |-> "str",
               prompt |-> prompt, result |-> ControlCreate(<<"t">>, None, prompt)]
    /\ UNCHANGED <<controls, documents, ai_responses, clock, upd, rdr, deleted, upload, batch>>

\* update_control up to its first await: the caller has built the ControlUpdate (a
\* body that fails its validation never reaches the service), the record is read
update_control_get(control_id, data) ==
    LET control_data == ControlUpdate(data)
        control == get_control(controls, control_id)
    IN  /\ upd.pc = "idle"
        /\ clock < MaxClock
        /\ IF ~control_data.ok
           THEN /\ ret' = Returned("ControlUpdate", control_id, "ValidationError")
                /\ upd' = upd
           ELSE IF ~control.ok
           THEN /\ ret' = Returned("update_control", control_id, "None")
                /\ upd' = upd
           ELSE /\ upd' = [pc |-> "update_control", id |-> control_id, control |-> control,
                           data |-> control_data.update_data]
                /\ ret' = Running
        /\ UNCHANGED <<controls, documents, ai_responses, clock, rdr, deleted, upload, batch>>

\* update_control from the merge to the return
update_control_put ==
    LET now == clock + 1
        updated_control == setattr(model_copy(upd.control, upd.data), "updated_at", now)
    IN  /\ upd.pc = "update_control"
        /\ clock' = now
        /\ upd' = Idle
        /\ IF ~updated_control.ok
           THEN /\ ret' = Returned("update_control", upd.id, "ValidationError")
                /\ controls' = controls
           ELSE /\ controls' = upsert_metadata(controls, upd.id, model_dump(updated_control))
                /\ ret' = Returned("update_control", upd.id, "control")
        /\ UNCHANGED <<documents, ai_responses, rdr, deleted, upload, batch>>

set_control_status_get(control_id, is_active) ==
    LET control == get_control(controls, control_id)
    IN  /\ upd.pc = "idle"
        /\ clock < MaxClock
        /\ IF ~control.ok
           THEN /\ ret' = Returned("set_control_status", control_id, "False")
                /\ upd' = upd
           ELSE /\ upd' = [pc |-> "set_control_status", id |-> control_id,
                           control |-> control, data |-> [is_active |-> is_active]]
                /\ ret' = Running
        /\ UNCHANGED <<controls, documents, ai_responses, clock, rdr, deleted, upload, batch>>

set_control_status_put ==
    LET now == clock + 1
        activated == setattr(upd.control, "is_active", upd.data.is_active)
        control == setattr(activated, "updated_at", now)
    IN  /\ upd.pc = "set_control_status"
        /\ clock' = now
        /\ upd' = Idle
        /\ controls' = upsert_metadata(controls, upd.id, model_dump(control))
        /\ ret' = Returned("set_control_status", upd.id, "True")
        /\ UNCHANGED <<documents, ai_responses, rdr, deleted, upload, batch>>

\* delete_folder either removes the prefix or raises (the store is unreachable)
delete_control(control_id, raises) ==
    /\ IF raises
       THEN /\ ret' = Returned("delete_control", control_id, "False")
            /\ UNCHANGED <<controls, deleted>>
       ELSE /\ controls' = delete_folder(controls, control_id)
            /\ ret' = Returned("delete_control", control_id, "True")
            /\ deleted' = IF control_id \in DOMAIN controls THEN deleted \cup {control_id}
                          ELSE deleted
    /\ UNCHANGED <<documents, ai_responses, clock, upd, rdr, upload, batch>>

-----------------------------------------------------------------------------
(* The writers of the document and response collections                    *)

put_document(control_id) ==
    LET now == clock + 1
        id == uuid4("d", now)
    IN  /\ clock + Owed < MaxClock
        /\ documents' = upsert_metadata(documents, id,
                            [id |-> id, control_id |-> control_id, created_at |-> now])
        /\ clock' = now
        /\ ret' = Returned("put_document", id, "document")
        /\ UNCHANGED <<controls, ai_responses, upd, rdr, deleted, upload, batch>>

delete_document(document_id) ==
    /\ document_id \in DOMAIN documents
    /\ documents' = delete_folder(documents, document_id)
    /\ ret' = Returned("delete_document", document_id, "True")
    /\ UNCHANGED <<controls, ai_responses, clock, upd, rdr, deleted, upload, batch>>

\* one record per (document, control) pair
put_response(document_id, control_id, status) ==
    LET now == clock + 1
    IN  /\ clock + Owed < MaxClock
        /\ document_id \in DOMAIN documents
        /\ control_id \in DOMAIN controls
        /\ <<document_id, control_id>> \notin DOMAIN ai_responses
        /\ ai_responses' = upsert_metadata(ai_responses, <<document_id, control_id>>,
                               [id |-> uuid4("r", now), document_id |-> document_id,
                                control_id |-> control_id, status |-> status,
                                updated_at |-> now])
        /\ clock' = now
        /\ ret' = Returned("put_response", uuid4("r", now), "response")
        /\ UNCHANGED <<controls, documents, upd, rdr, deleted, upload, batch>>

-----------------------------------------------------------------------------
(* services/validation_service.py *)

\* the table with a finished response sent back to processing
valid_transitions_rerun ==
    [s \in ProcessingStatus |->
        CASE s = PENDING      -> {PROCESSING, FAILED}
          [] s = PROCESSING   -> {COMPLETED, FAILED, REGENERATING}
          [] s = COMPLETED    -> {REGENERATING, PROCESSING}
          [] s = FAILED       -> {PROCESSING, REGENERATING}
          [] s = REGENERATING -> {COMPLETED, FAILED}]

\* the table with completed as a final status
valid_transitions_final ==
    [s \in ProcessingStatus |->
        CASE s = PENDING      -> {PROCESSING, FAILED}
          [] s = PROCESSING   -> {COMPLETED, FAILED, REGENERATING}
          [] s = COMPLETED    -> {}
          [] s = FAILED       -> {PROCESSING, REGENERATING}
          [] s = REGENERATING -> {COMPLETED, FAILED}]

valid_transitions ==
    [s \in ProcessingStatus |->
        CASE s = PENDING      -> {PROCESSING, FAILED}
          [] s = PROCESSING   -> {COMPLETED, FAILED, REGENERATING}
          [] s = COMPLETED    -> {REGENERATING}
          [] s = FAILED       -> {PROCESSING, REGENERATING}
          [] s = REGENERATING -> {COMPLETED, FAILED}]

\* the new status, or the ValueError with its message
validate_processing_status_transition(current_status, new_status) ==
    IF new_status \notin valid_transitions[current_status]
    THEN [ok |-> FALSE,
          error |-> <<"Invalid status transition from ", current_status, " to ", new_status>>]
    ELSE [ok |-> TRUE, value |-> new_status]

\* the response workflow asks for a status change; only a legal one is written
change_status(key, new_status) ==
    LET current == ai_responses[key].status
        checked == validate_processing_status_transition(current, new_status)
        now == clock + 1
    IN  /\ key \in DOMAIN ai_responses
        /\ checked.ok => clock + Owed < MaxClock
        /\ ret' = [op |-> "change_status", id |-> ai_responses[key].id,
                   out |-> IF checked.ok THEN "status" ELSE "ValueError",
                   current |-> current, new |-> new_status, result |-> checked]
        /\ IF checked.ok
           THEN /\ ai_responses' = [ai_responses EXCEPT ![key].status = checked.value,
                                                        ![key].updated_at = now]
                /\ clock' = now
           ELSE UNCHANGED <<ai_responses, clock>>
        /\ UNCHANGED <<controls, documents, upd, rdr, deleted, upload, batch>>

-----------------------------------------------------------------------------
(* schemas.py: the tabular view schemas *)

CellResponseFields ==
    {"document_id", "control_id", "document_filename", "control_title", "ai_response", "status"}

CellResponseRequired == CellResponseFields \ {"ai_response"}

\* CellResponse(**kwargs): every required field given, no field the schema lacks
\* (extra='forbid'), status one of the enum's values
CellResponse(kwargs) ==
    IF /\ CellResponseRequired \subseteq DOMAIN kwargs
       /\ DOMAIN kwargs \subseteq CellResponseFields
       /\ kwargs.status \in ProcessingStatus
    THEN [ok |-> TRUE, cell |-> kwargs]
    ELSE Invalid

\* DocumentResponse.model_validate(document): control_id is a required str
DocumentResponse(document) ==
    IF document.control_id = None THEN Invalid ELSE [ok |-> TRUE, document |-> document]

\* TabularViewResponse.total_cells
total_cells(v) == Len(v.controls) * Len(v.documents)

\* round(num / den, 0) for naturals: the nearest integer, a tie going to the
\* even one.  Percentages are kept in tenths (250 is 25.0), so round(x, 1) of
\* a percentage is this rounding of its tenths.
round_half_even(num, den) ==
    LET q == num \div den
        r == num % den
    IN  IF 2 * r < den THEN q
        ELSE IF 2 * r > den THEN q + 1
        ELSE IF q % 2 = 0 THEN q ELSE q + 1

\* sum(1 for cell in cells if cell.status == COMPLETED)
completed_cells(cells) == Cardinality({j \in 1..Len(cells) : cells[j].status = COMPLETED})

\* a row percentage that takes every finished cell for a completed one
completion_percentage_terminal(row) ==
    IF row.cells = <<>> THEN 0
    ELSE round_half_even(
             1000 * Cardinality({j \in 1..Len(row.cells) :
                                    is_terminal_status(row.cells[j].status)}),
             Len(row.cells))

\* TableRow.completion_percentage, in tenths of a percent
completion_percentage(row) ==
    IF row.cells = <<>> THEN 0
    ELSE round_half_even(1000 * completed_cells(row.cells), Len(row.cells))

\* sum(row.completion_percentage * len(row.cells) for row in rows[1..n]), in tenths
RECURSIVE weighted_sum(_, _)
weighted_sum(rows, n) ==
    IF n = 0 THEN 0
    ELSE weighted_sum(rows, n - 1) + completion_percentage(rows[n]) * Len(rows[n].cells)

\* TabularViewResponse.overall_completion_percentage, in tenths of a percent
overall_completion_percentage(v) ==
    IF total_cells(v) = 0 THEN 1000
    ELSE round_half_even(weighted_sum(v.rows, Len(v.rows)), total_cells(v))

\* TabularViewResponse(controls=, rows=, processing_count=), as get_tabular_view
\* builds it: documents keeps its default, the empty list
TabularViewResponse(ctls, rows, processing_count) ==
    [ok |-> TRUE, controls |-> ctls, documents |-> <<>>, rows |-> rows,
     processing_count |-> processing_count]

\* a cell with every field of CellResponse given
full_cell(document_id, control_id, status) ==
    CellResponse([document_id |-> document_id, control_id |-> control_id,
                  document_filename |-> document_id, control_title |-> control_id,
                  status |-> status]).cell

\* a TableRow is built and its completion_percentage read
read_completion_percentage(statuses) ==
    LET row == [document |-> [id |-> uuid4("d", 1)],
                cells |-> [j \in 1..Len(statuses) |->
                              full_cell(uuid4("d", 1), uuid4("c", j), statuses[j])]]
    IN  /\ ret = Running
        /\ ret' = [op |-> "completion_percentage", id |-> UnknownId, out |-> "float",
                   row |-> row, result |-> completion_percentage(row)]
        /\ UNCHANGED <<controls, documents, ai_responses, clock, upd, rdr, deleted,
                       upload, batch>>

\* a view is built over a grid of cells as lines 88-92 of the tabular service
\* build it, and its overall_completion_percentage read
read_overall_completion_percentage(grid, columns) ==
    LET ctls == [j \in 1..columns |-> [id |-> uuid4("c", j)]]
        rows == [i \in 1..Len(grid) |->
                    [document |-> [id |-> uuid4("d", i)],
                     cells |-> [j \in 1..columns |->
                                   full_cell(uuid4("d", i), uuid4("c", j), grid[i][j])]]]
        v == TabularViewResponse(ctls, rows, 0)
    IN  /\ ret = Running
        /\ ret' = [op |-> "overall_completion_percentage", id |-> UnknownId,
                   out |-> "float", view |-> v, total_cells |-> total_cells(v),
                   result |-> overall_completion_percentage(v)]
        /\ UNCHANGED <<controls, documents, ai_responses, clock, upd, rdr, deleted,
                       upload, batch>>

-----------------------------------------------------------------------------
(* modules/tabular/service.py *)

\* a key made of the control's identifier alone
composite_key_control(document_id, control_id) == <<"_">> \o control_id

\* f"{document_id}_{control_id}"
composite_key(document_id, control_id) == document_id \o <<"_">> \o control_id

\* response_map[key] = response, for every response listed; were two records to
\* share a key, the one listed last would stay
response_map(responses) ==
    [k \in {composite_key(r.document_id, r.control_id) : r \in responses} |->
        CHOOSE r \in responses : composite_key(r.document_id, r.control_id) = k]

\* response_map.get(key) is truthy: the key is mapped
found(map, key) == key \in DOMAIN map

\* the cell built for one document and one control (lines 54-79)
build_cell(document, control, map) ==
    LET key == composite_key(document.id, control.id)
    IN  IF found(map, key)
        THEN CellResponse([control_id |-> control.id, document_id |-> document.id,
                           status |-> map[key].status, confidence |-> None,
                           result |-> None, error_message |-> None])
        ELSE CellResponse([control_id |-> control.id, document_id |-> document.id,
                           status |-> PENDING])

\* processing_count += 1 for every looked-up response with an active status
count_processing(ctls, docs, map) ==
    Cardinality({ij \in (1..Len(docs)) \X (1..Len(ctls)) :
        LET key == composite_key(docs[ij[1]].id, ctls[ij[2]].id)
        IN  found(map, key) /\ is_active_status(map[key].status)})

\* the rows of the table, the loop starting one document late
build_rows_skip_first(ctls, docs, map) ==
    [i \in 1..(Len(docs) - 1) |->
        [document |-> DocumentResponse(docs[i + 1]),
         cells |-> [j \in 1..Len(ctls) |-> build_cell(docs[i + 1], ctls[j], map)]]]

\* the rows of the table (lines 47-86)
build_rows(ctls, docs, map) ==
    [i \in 1..Len(docs) |->
        [document |-> DocumentResponse(docs[i]),
         cells |-> [j \in 1..Len(ctls) |-> build_cell(docs[i], ctls[j], map)]]]

\* get_tabular_view from the response map to the return (lines 41-92): Invalid
\* when a constructor raises, else the TabularViewResponse
build_view(ctls, docs, responses) ==
    LET map == response_map(responses)
        rows == build_rows(ctls, docs, map)
        raised == \E i \in 1..Len(rows) :
                     \/ \E j \in 1..Len(rows[i].cells) : ~rows[i].cells[j].ok
                     \/ ~rows[i].document.ok
    IN  IF raised THEN Invalid
        ELSE [ok |-> TRUE,
              controls |-> ctls,
              documents |-> <<>>,
              rows |-> [i \in 1..Len(rows) |->
                          [document |-> rows[i].document.document,
                           cells |-> [j \in 1..Len(rows[i].cells) |-> rows[i].cells[j].cell]]],
              processing_count |-> count_processing(ctls, docs, map)]

get_tabular_view_controls ==
    /\ rdr.pc = "idle"
    /\ rdr' = [pc |-> "view_documents", store |-> controls, started |-> clock,
               controls |-> get_active_controls(controls)]
    /\ ret' = Running
    /\ UNCHANGED <<controls, documents, ai_responses, clock, upd, deleted, upload, batch>>

\* a second step that lists the controls again
get_tabular_view_documents_refetch ==
    /\ rdr.pc = "view_documents"
    /\ rdr' = [pc |-> "view_responses", store |-> rdr.store, started |-> rdr.started,
               controls |-> get_active_controls(controls),
               documents |-> sorted_desc(list_files(documents))]
    /\ ret' = Running
    /\ UNCHANGED <<controls, documents, ai_responses, clock, upd, deleted, upload, batch>>

get_tabular_view_documents ==
    /\ rdr.pc = "view_documents"
    /\ rdr' = [pc |-> "view_responses", store |-> rdr.store, started |-> rdr.started,
               controls |-> rdr.controls,
               documents |-> sorted_desc(list_files(documents))]
    /\ ret' = Running
    /\ UNCHANGED <<controls, documents, ai_responses, clock, upd, deleted, upload, batch>>

\* a last step that also removes the response records of controls it did not list
get_tabular_view_responses_pruning ==
    LET result == build_view(rdr.controls, rdr.documents, list_files(ai_responses))
        listed == {rdr.controls[j].id : j \in 1..Len(rdr.controls)}
    IN  /\ rdr.pc = "view_responses"
        /\ ret' = [op |-> "get_tabular_view", id |-> UnknownId,
                   out |-> IF result.ok THEN "view" ELSE "ValidationError",
                   result |-> result, store |-> rdr.store, started |-> rdr.started,
                   controls |-> rdr.controls,
                   documents |-> rdr.documents, responses |-> list_files(ai_responses)]
        /\ rdr' = Idle
        /\ ai_responses' = [k \in {k \in DOMAIN ai_responses : k[2] \in listed} |->
                               ai_responses[k]]
        /\ UNCHANGED <<controls, documents, clock, upd, deleted, upload, batch>>

get_tabular_view_responses ==
    LET result == build_view(rdr.controls, rdr.documents, list_files(ai_responses))
    IN  /\ rdr.pc = "view_responses"
        /\ ret' = [op |-> "get_tabular_view", id |-> UnknownId,
                   out |-> IF result.ok THEN "view" ELSE "ValidationError",
                   result |-> result, store |-> rdr.store, started |-> rdr.started,
                   controls |-> rdr.controls,
                   documents |-> rdr.documents, responses |-> list_files(ai_responses)]
        /\ rdr' = Idle
        /\ UNCHANGED <<controls, documents, ai_responses, clock, upd, deleted, upload, batch>>

\* status_counts[status] = 1 where the code adds 1
status_counts_seen(responses) ==
    [s \in ProcessingStatus |-> IF \E r \in responses : r.status = s THEN 1 ELSE 0]

status_counts(responses) ==
    [s \in ProcessingStatus |-> Cardinality({r \in responses : r.status = s})]

get_processing_status_responses ==
    /\ rdr.pc = "idle"
    /\ rdr' = [pc |-> "status_controls", responses |-> list_files(ai_responses)]
    /\ ret' = Running
    /\ UNCHANGED <<controls, documents, ai_responses, clock, upd, deleted, upload, batch>>

get_processing_status_controls ==
    /\ rdr.pc = "status_controls"
    /\ rdr' = [pc |-> "status_documents", responses |-> rdr.responses,
               store |-> controls, controls |-> list_controls(controls, FALSE)]
    /\ ret' = Running
    /\ UNCHANGED <<controls, documents, ai_responses, clock, upd, deleted, upload, batch>>

get_processing_status_documents ==
    LET total_possible == Len(rdr.controls) * Cardinality(list_files(documents))
        total_processed == Cardinality(rdr.responses)
        counts == status_counts(rdr.responses)
    IN  /\ rdr.pc = "status_documents"
        /\ ret' = [op |-> "get_processing_status", id |-> UnknownId, out |-> "dict",
                   total_possible_combinations |-> total_possible,
                   total_processed |-> total_processed,
                   currently_processing |->
                       counts[PENDING] + counts[PROCESSING] + counts[REGENERATING],
                   status_breakdown |-> counts,
                   completion_percentage |->
                       IF total_possible > 0
                       THEN [num |-> total_processed * 100, den |-> total_possible]
                       ELSE [num |-> 0, den |-> 1],
                   responses |-> rdr.responses, store |-> rdr.store,
                   controls |-> rdr.controls, documents |-> list_files(documents)]
        /\ rdr' = Idle
        /\ UNCHANGED <<controls, documents, ai_responses, clock, upd, deleted, upload, batch>>

-----------------------------------------------------------------------------
(* services/document_service.py *)

MaxFiles == 3

\* config.py: MAX_FILE_SIZE, ALLOWED_FILE_TYPES
MAX_FILE_SIZE == 52428800

ALLOWED_FILE_TYPES ==
    {"application/pdf",
     "application/vnd.openxmlformats-officedocument.spreadsheetml.sheet",
     "application/vnd.ms-excel", "text/csv", "application/json", "text/plain"}

\* HTTPException(status_code, detail), as str(e) shows it
HTTPException(status_code, detail) == [ok |-> FALSE, error |-> <<status_code, detail>>]

_validate_file(file) ==
    IF file.size > MAX_FILE_SIZE THEN HTTPException("413", "File size exceeds maximum")
    ELSE IF file.content_type \notin ALLOWED_FILE_TYPES
         THEN HTTPException("415", "File type not supported")
         ELSE [ok |-> TRUE]

DocumentResponseFields ==
    {"filename", "original_filename", "file_type", "file_size", "id", "control_id",
     "file_url", "signed_url", "reducto_file_id", "extraction_status", "created_at",
     "updated_at"}

DocumentResponseRequired ==
    {"filename", "original_filename", "file_type", "file_size", "id", "control_id",
     "extraction_status", "created_at"}

\* DocumentResponse(**kwargs): every field without a default must be given, no
\* other key may be, and control_id is a str
NewDocumentResponse(kwargs) ==
    IF /\ DocumentResponseRequired \subseteq DOMAIN kwargs
       /\ DOMAIN kwargs \subseteq DocumentResponseFields
       /\ kwargs.control_id # None
    THEN [ok |-> TRUE, document |-> kwargs]
    ELSE Invalid

\* upload_document: the document, or the HTTPException raised; stored is the
\* blob bucket afterwards.  storage_raises and reducto_raises are the outcomes
\* of upload_file and of the parsing service.
upload_document(file, control_id, n, stored, storage_raises, reducto_raises) ==
    LET checked == _validate_file(file)
        unique_filename == uuid4("f", n)
        document == NewDocumentResponse(
                        [id |-> uuid4("d", n), filename |-> unique_filename,
                         original_filename |-> file.filename,
                         file_type |-> file.content_type, file_size |-> file.size,
                         file_url |-> unique_filename, extraction_status |-> PENDING,
                         control_id |-> control_id])
        failed(cause, blobs) ==
            [ok |-> FALSE, stored |-> blobs,
             error |-> <<"500", "Failed to upload document: ", cause>>]
    IN  IF ~checked.ok THEN [ok |-> FALSE, stored |-> stored, error |-> checked.error]
        ELSE IF storage_raises THEN failed("upload_file", stored)
        ELSE IF ~document.ok THEN failed("ValidationError", stored \cup {unique_filename})
        ELSE IF reducto_raises THEN failed("reducto", stored \cup {unique_filename})
        ELSE [ok |-> TRUE, stored |-> stored \cup {unique_filename},
              document |-> document.document]

upload_multiple_documents_begin(files, control_id) ==
    /\ upload.pc = "idle"
    /\ upload' = [pc |-> "loop", stored |-> upload.stored, files |-> files,
                  control_id |-> control_id, uploaded_files |-> <<>>,
                  failed_files |-> <<>>]
    /\ ret' = Running
    /\ UNCHANGED <<controls, documents, ai_responses, clock, upd, rdr, deleted, batch>>

\* one turn of the loop over files (lines 74-82)
upload_multiple_documents_file(storage_raises, reducto_raises) ==
    LET n == Len(upload.uploaded_files) + Len(upload.failed_files) + 1
        file == upload.files[n]
        result == upload_document(file, upload.control_id, n, upload.stored,
                                  storage_raises, reducto_raises)
    IN  /\ upload.pc = "loop"
        /\ n <= Len(upload.files)
        /\ upload' = [upload EXCEPT
              !.stored = result.stored,
              !.uploaded_files = IF result.ok THEN Append(@, result.document) ELSE @,
              !.failed_files = IF result.ok THEN @
                               ELSE Append(@, [filename |-> file.filename,
                                               error |-> result.error])]
        /\ ret' = Running
        /\ UNCHANGED <<controls, documents, ai_responses, clock, upd, rdr, deleted, batch>>

upload_multiple_documents_return ==
    /\ upload.pc = "loop"
    /\ Len(upload.uploaded_files) + Len(upload.failed_files) = Len(upload.files)
    /\ ret' = [op |-> "upload_multiple_documents", id |-> UnknownId, out |-> "dict",
               files |-> upload.files,
               result |-> [uploaded_files |-> upload.uploaded_files,
                           failed_files |-> upload.failed_files,
                           total_uploaded |-> Len(upload.uploaded_files),
                           total_failed |-> Len(upload.failed_files)]]
    /\ upload' = [pc |-> "done", stored |-> upload.stored]
    /\ UNCHANGED <<controls, documents, ai_responses, clock, upd, rdr, deleted, batch>>

-----------------------------------------------------------------------------
(* services/ai_service.py *)

MaxUnits == 7

\* asyncio.Semaphore(5)
SemaphoreValue == 5

AIResponseResponseFields ==
    {"response_text", "confidence_score", "citations", "response_metadata", "id",
     "control_id", "document_id", "status", "error_message", "openai_model",
     "tokens_used", "processing_time_ms", "created_at", "updated_at"}

AIResponseResponseRequired == {"id", "control_id", "document_id", "status", "created_at"}

\* tokens_used and processing_time_ms are PositiveInt | None
PositiveOrNone(kwargs, f) == (f \in DOMAIN kwargs /\ kwargs[f] \in Nat) => kwargs[f] > 0

\* AIResponseResponse(**kwargs): every field without a default must be given
\* and no other key may be
AIResponseResponse(kwargs) ==
    IF /\ AIResponseResponseRequired \subseteq DOMAIN kwargs
       /\ DOMAIN kwargs \subseteq AIResponseResponseFields
       /\ kwargs.status \in ProcessingStatus
       /\ PositiveOrNone(kwargs, "tokens_used")
       /\ PositiveOrNone(kwargs, "processing_time_ms")
    THEN [ok |-> TRUE, response |-> kwargs]
    ELSE Invalid

\* process_document once the language-model call has returned or raised: the
\* response returned, or Invalid when the constructor in the handler raises
process_document(raises) ==
    LET completed == AIResponseResponse(
                        [response_text |-> "text", confidence_score |-> 5,
                         citations |-> <<>>, metadata |-> <<>>, tokens_used |-> 7,
                         processing_time_ms |-> 1, status |-> COMPLETED,
                         error_message |-> None])
        failed == AIResponseResponse(
                        [response_text |-> "", confidence_score |-> 0,
                         citations |-> <<>>, metadata |-> <<>>, tokens_used |-> 0,
                         processing_time_ms |-> 0, status |-> FAILED,
                         error_message |-> "OpenAI API error"])
    IN  IF ~raises /\ completed.ok THEN completed ELSE failed

\* lines 61-73: the coroutines are created, none has started
process_multiple_documents_begin(pairs) ==
    /\ batch.pc = "idle"
    /\ batch' = [pc |-> "gather", documents |-> pairs, semaphore |-> SemaphoreValue,
                 tasks |-> [i \in 1..Len(pairs) |-> [pc |-> "waiting"]]]
    /\ ret' = Running
    /\ UNCHANGED <<controls, documents, ai_responses, clock, upd, rdr, deleted, upload>>

\* a task that starts its call without waiting for a permit
acquire_any(i) ==
    /\ batch.pc = "gather"
    /\ i <= Len(batch.tasks)
    /\ batch.tasks[i].pc = "waiting"
    /\ batch' = [batch EXCEPT !.semaphore = IF @ > 0 THEN @ - 1 ELSE 0,
                              !.tasks[i] = [pc |-> "calling"]]
    /\ ret' = Running
    /\ UNCHANGED <<controls, documents, ai_responses, clock, upd, rdr, deleted, upload>>

\* process_with_semaphore enters "async with semaphore" and awaits its task,
\* which runs up to the call of the language model
acquire(i) ==
    /\ batch.pc = "gather"
    /\ i <= Len(batch.tasks)
    /\ batch.tasks[i].pc = "waiting"
    /\ batch.semaphore > 0
    /\ batch' = [batch EXCEPT !.semaphore = @ - 1, !.tasks[i] = [pc |-> "calling"]]
    /\ ret' = Running
    /\ UNCHANGED <<controls, documents, ai_responses, clock, upd, rdr, deleted, upload>>

\* the language model answers or fails, process_document ends and the
\* "async with" releases the permit
release(i, raises) ==
    /\ batch.pc = "gather"
    /\ i <= Len(batch.tasks)
    /\ batch.tasks[i].pc = "calling"
    /\ batch' = [batch EXCEPT !.semaphore = @ + 1,
                              !.tasks[i] = [pc |-> "done", raised |-> raises,
                                            result |-> process_document(raises)]]
    /\ ret' = Running
    /\ UNCHANGED <<controls, documents, ai_responses, clock, upd, rdr, deleted, upload>>

\* lines 78-87: the results that are AIResponseResponse, in input order
successful_results(results) == SelectSeq(results, LAMBDA result : result.ok)

process_multiple_documents_return ==
    LET results == [i \in 1..Len(batch.tasks) |-> batch.tasks[i].result]
    IN  /\ batch.pc = "gather"
        /\ \A i \in 1..Len(batch.tasks) : batch.tasks[i].pc = "done"
        /\ ret' = [op |-> "process_multiple_documents", id |-> UnknownId, out |-> "list",
                   documents |-> batch.documents, results |-> results,
                   result |-> successful_results(results)]
        /\ batch' = [pc |-> "done"]
        /\ UNCHANGED <<controls, documents, ai_responses, clock, upd, rdr, deleted, upload>>

-----------------------------------------------------------------------------
(* The system *)

Init ==
    /\ controls = <<>>
    /\ documents = <<>>
    /\ ai_responses = <<>>
    /\ clock = 0
    /\ upd = Idle
    /\ rdr = Idle
    /\ ret = Running
    /\ deleted = {}
    /\ upload = NoUpload
    /\ batch = NoBatch

TitleInputs == {<<"a">>}

DescriptionInputs == {None}

PromptInputs == {<<"b">>}

UpdateInputs == {[is_active |-> FALSE], [title |-> <<"a", "A">>]}

CallIds == DOMAIN controls \cup deleted \cup {UnknownId}

\* a status no ProcessingStatus member has: the record is corrupt
CorruptStatus == "corrupt"

Next ==
    \/ \E t \in TitleInputs, d \in DescriptionInputs, p \in PromptInputs :
          create_control(t, d, p)
    \/ \E id \in CallIds, data \in UpdateInputs : update_control_get(id, data)
    \/ update_control_put
    \/ \E id \in CallIds, b \in BOOLEAN : set_control_status_get(id, b)
    \/ set_control_status_put
    \/ \E id \in CallIds, raises \in BOOLEAN : delete_control(id, raises)
    \/ \E c \in DOMAIN controls : put_document(c)
    \/ \E d \in DOMAIN documents : delete_document(d)
    \/ \E d \in DOMAIN documents, c \in DOMAIN controls,
          s \in ProcessingStatus \cup {CorruptStatus} :
          put_response(d, c, s)
    \/ get_tabular_view_controls
    \/ get_tabular_view_documents
    \/ get_tabular_view_responses
    \/ get_processing_status_responses
    \/ get_processing_status_controls
    \/ get_processing_status_documents

Spec == Init /\ [][Next]_vars

\* Titles, prompts and updates that meet each other up to case and whitespace
ControlTitles == {<<"a", "?">>, <<"b">>}

ControlPrompts == {<<"a">>, <<"b", ".">>}

ControlUpdates ==
    {[title |-> <<" ", "A", "?">>],
     [prompt |-> <<"A">>],
     [description |-> <<"d">>, is_active |-> FALSE]}

\* Queries in either case that meet a title, a prompt, a description, or nothing
SearchQueries == {<<>>, <<"A">>, <<"b">>, <<"d">>, <<"?">>}

NextControls ==
    \/ \E q \in SearchQueries : search_controls(q)
    \/ \E t \in ControlTitles, d \in DescriptionInputs, p \in ControlPrompts :
          create_control(t, d, p)
    \/ \E id \in CallIds, data \in ControlUpdates : update_control_get(id, data)
    \/ update_control_put
    \/ \E id \in CallIds, b \in BOOLEAN : set_control_status_get(id, b)
    \/ set_control_status_put
    \/ \E id \in CallIds, raises \in BOOLEAN : delete_control(id, raises)

ControlSpec == Init /\ [][NextControls]_vars

\* The files of a batch: a small or an oversized file, of an allowed or a
\* refused type, named by its place in the batch
FileKinds ==
    [size : {1024, MAX_FILE_SIZE + 1}, content_type : {"application/pdf", "image/png"}]

FileLists ==
    UNION {{[i \in 1..n |-> [filename |-> <<"u", Digits[i]>>, size |-> kinds[i].size,
                             content_type |-> kinds[i].content_type]] :
               kinds \in [1..n -> FileKinds]} : n \in 0..MaxFiles}

NextUpload ==
    \/ \E files \in FileLists, c \in {None, UnknownId} :
          upload_multiple_documents_begin(files, c)
    \/ \E storage_raises \in BOOLEAN, reducto_raises \in BOOLEAN :
          upload_multiple_documents_file(storage_raises, reducto_raises)
    \/ upload_multiple_documents_return

UploadSpec == Init /\ [][NextUpload]_vars

\* The (document_content, control_prompt) pairs of a batch
PairLists ==
    {[i \in 1..n |-> <<<<"t", Digits[i]>>, <<"p", "?">>>>] : n \in 0..MaxUnits}

NextAI ==
    \/ \E pairs \in PairLists : process_multiple_documents_begin(pairs)
    \/ \E i \in 1..MaxUnits : acquire(i)
    \/ \E i \in 1..MaxUnits, raises \in BOOLEAN : release(i, raises)
    \/ process_multiple_documents_return

AISpec == Init /\ [][NextAI]_vars

MaxCells == 4

\* The statuses of the cells of one row
StatusLists == UNION {[1..n -> ProcessingStatus] : n \in 0..MaxCells}

NextRow == \E statuses \in StatusLists : read_completion_percentage(statuses)

RowSpec == Init /\ [][NextRow]_vars

MaxSide == 2

\* The statuses of the cells of a table of at most MaxSide rows and columns
Grids(columns) ==
    UNION {[1..n -> [1..columns -> {PENDING, COMPLETED, FAILED}]] : n \in 0..MaxSide}

NextView ==
    \E columns \in 0..MaxSide : \E grid \in Grids(columns) :
        read_overall_completion_percentage(grid, columns)

ViewSpec == Init /\ [][NextView]_vars

MaxLen == 3

\* Prompts of at most MaxLen characters, with blanks and the three final marks
PromptTexts == UNION {[1..n -> {" ", "a", "?", ".", "!"}] : n \in 1..MaxLen}

\* One control is created from any prompt, then its prompt is submitted again
\* or replaced
NextPrompt ==
    \/ \E p \in PromptTexts : controls = <<>> /\ read_validate_prompt_format(p)
    \/ \E p \in PromptTexts : controls = <<>> /\ create_control(<<"t">>, None, p)
    \/ \E id \in DOMAIN controls : update_control_get(id, [prompt |-> controls[id].prompt])
    \/ \E id \in DOMAIN controls, p \in ControlPrompts : update_control_get(id, [prompt |-> p])
    \/ update_control_put

PromptSpec == Init /\ [][NextPrompt]_vars

\* The response record of a document under the first control, as put_response
\* writes it
StoredResponse(n, status) ==
    [id |-> uuid4("r", n), document_id |-> uuid4("d", n),
     control_id |-> uuid4("c", 1), status |-> status, updated_at |-> 0]

\* One stored control with two documents and their responses, written before
\* the run, each response in any status; the workflow then asks for status
\* changes.
InitTransition ==
    /\ controls = (uuid4("c", 1) :>
                     model_dump(ControlResponse(uuid4("c", 1), <<"a">>, None, <<"b">>, TRUE, 0, 0)))
    /\ documents = [id \in {uuid4("d", 1), uuid4("d", 2)} |->
                     [id |-> id, control_id |-> uuid4("c", 1), created_at |-> 0]]
    /\ \E s1 \in ProcessingStatus, s2 \in ProcessingStatus :
          ai_responses = (<<uuid4("d", 1), uuid4("c", 1)>> :> StoredResponse(1, s1))
                      @@ (<<uuid4("d", 2), uuid4("c", 1)>> :> StoredResponse(2, s2))
    /\ clock = 0
    /\ upd = Idle
    /\ rdr = Idle
    /\ ret = Running
    /\ deleted = {}
    /\ upload = NoUpload
    /\ batch = NoBatch

NextTransition == \E k \in DOMAIN ai_responses, s \in ProcessingStatus : change_status(k, s)

TransitionSpec == InitTransition /\ [][NextTransition]_vars

\* The view is read while controls, documents and responses are only added
NextSkew ==
    \/ \E t \in TitleInputs, d \in DescriptionInputs, p \in PromptInputs :
          create_control(t, d, p)
    \/ \E c \in DOMAIN controls : put_document(c)
    \/ \E d \in DOMAIN documents, c \in DOMAIN controls, s \in ProcessingStatus :
          put_response(d, c, s)
    \/ get_tabular_view_controls
    \/ get_tabular_view_documents
    \/ get_tabular_view_responses

SkewSpec == Init /\ [][NextSkew]_vars

\* Over a store with two documents under one control and their responses, the
\* statuses change, documents are deleted, and the view is read
NextKey ==
    \/ \E k \in DOMAIN ai_responses, s \in ProcessingStatus : change_status(k, s)
    \/ \E d \in DOMAIN documents : delete_document(d)
    \/ get_tabular_view_controls
    \/ get_tabular_view_documents
    \/ get_tabular_view_responses

KeySpec == InitTransition /\ [][NextKey]_vars

\* The updates of the control lifecycle: every field at once with the control
\* switched off, or the title alone
LifecycleUpdates ==
    {[title |-> <<"u">>, description |-> <<"d">>, prompt |-> <<"p">>, is_active |-> FALSE],
     [title |-> <<"u">>]}

\* Controls are created, updated through update_control and deleted, and the
\* view is read
NextLifecycle ==
    \/ \E t \in TitleInputs, d \in DescriptionInputs, p \in PromptInputs :
          create_control(t, d, p)
    \/ \E id \in CallIds, data \in LifecycleUpdates : update_control_get(id, data)
    \/ update_control_put
    \/ \E id \in CallIds, raises \in BOOLEAN : delete_control(id, raises)
    \/ get_tabular_view_controls
    \/ get_tabular_view_documents
    \/ get_tabular_view_responses

LifecycleSpec == Init /\ [][NextLifecycle]_vars

\* Over that store, with the responses in any statuses, controls are deactivated
\* and deleted, documents deleted, and the summary is read between any two of these
NextStatus ==
    \/ \E d \in DOMAIN documents : delete_document(d)
    \/ \E id \in CallIds, b \in BOOLEAN : set_control_status_get(id, b)
    \/ set_control_status_put
    \/ \E id \in CallIds, raises \in BOOLEAN : delete_control(id, raises)
    \/ get_processing_status_responses
    \/ get_processing_status_controls
    \/ get_processing_status_documents

StatusSpec == InitTransition /\ [][NextStatus]_vars

-----------------------------------------------------------------------------
(* The claims *)

\* The set of the elements of a sequence
Range(seq) == {seq[i] : i \in DOMAIN seq}

\* The transition table as the specification gives it
LegalPairs ==
    {<<PENDING, PROCESSING>>, <<PENDING, FAILED>>,
     <<PROCESSING, COMPLETED>>, <<PROCESSING, FAILED>>, <<PROCESSING, REGENERATING>>,
     <<COMPLETED, REGENERATING>>,
     <<FAILED, PROCESSING>>, <<FAILED, REGENERATING>>,
     <<REGENERATING, COMPLETED>>, <<REGENERATING, FAILED>>}

\* C1: validate_processing_status_transition(current, new) returns new exactly
\* for the pairs of the table; every other pair of the five statuses fails
\* with an error whose message names both the current and the new status.
C1_TransitionTable ==
    ret.op = "change_status" =>
        IF <<ret.current, ret.new>> \in LegalPairs
        THEN ret.result.ok /\ ret.result.value = ret.new
        ELSE /\ ~ret.result.ok
             /\ ret.current \in Range(ret.result.error)
             /\ ret.new \in Range(ret.result.error)

\* completed -> processing was asked for and refused
C1_Witness ==
    /\ ret.op = "change_status"
    /\ ret.current = COMPLETED
    /\ ret.new = PROCESSING
    /\ ~ret.result.ok

\* The view call that has just returned a TabularViewResponse
ViewReturned == ret.op = "get_tabular_view" /\ ret.out = "view"

ViewCalled == ret.op = "get_tabular_view"

\* The sum of the numbers of cells of rows 1..n
RECURSIVE CellsUpTo(_, _)
CellsUpTo(rows, n) == IF n = 0 THEN 0 ELSE CellsUpTo(rows, n - 1) + Len(rows[n].cells)

\* C3: for every store state get_tabular_view returns a view whose total_cells
\* is the number of active controls times the number of documents fetched,
\* which is the number of cells over all its rows.
C3_TotalCells ==
    ViewCalled =>
        /\ ret.out = "view"
        /\ total_cells(ret.result) = Len(ret.controls) * Len(ret.documents)
        /\ total_cells(ret.result) = CellsUpTo(ret.result.rows, Len(ret.result.rows))

\* The (document, control) pairs of the view call for which the responses read
\* hold no record
Unanswered ==
    {ij \in (1..Len(ret.documents)) \X (1..Len(ret.controls)) :
        ~\E r \in ret.responses : /\ r.document_id = ret.documents[ij[1]].id
                                  /\ r.control_id = ret.controls[ij[2]].id}

\* C4: for every fetched document and active control without a response
\* record, get_tabular_view emits a cell with status pending and no response
\* data, and counts none of them in processing_count.
C4_PendingCells ==
    (ViewCalled /\ Unanswered # {}) =>
        /\ ret.out = "view"
        /\ \A ij \in Unanswered :
              LET cell == ret.result.rows[ij[1]].cells[ij[2]]
              IN  /\ cell.status = PENDING
                  /\ "ai_response" \notin DOMAIN cell
        /\ ret.result.processing_count <=
              Len(ret.documents) * Len(ret.controls) - Cardinality(Unanswered)

\* The (document, control) pairs of the view call whose response read is
\* processing or regenerating
InProgress ==
    {ij \in (1..Len(ret.documents)) \X (1..Len(ret.controls)) :
        \E r \in ret.responses : /\ r.document_id = ret.documents[ij[1]].id
                                 /\ r.control_id = ret.controls[ij[2]].id
                                 /\ r.status \in {PROCESSING, REGENERATING}}

\* C5: the processing_count of the view returned is the number of emitted
\* cells whose response is processing or regenerating: a cell with such a
\* response is emitted with that status and counted.
C5_ProcessingCount ==
    (ViewCalled /\ InProgress # {}) =>
        /\ ret.out = "view"
        /\ ret.result.processing_count = Cardinality(InProgress)
        /\ \A ij \in InProgress :
              ret.result.rows[ij[1]].cells[ij[2]].status \in {PROCESSING, REGENERATING}

SameText(title, prompt) == lower(strip(title)) = lower(strip(prompt))

\* The value a field has in the record update_control merges: the one
\* provided, else the one read
Merged(f) == IF f \in DOMAIN upd.data THEN upd.data[f] ELSE upd.control[f]

\* update_control finishes in this step
UpdateFinishes == upd.pc = "update_control" /\ upd'.pc = "idle"

\* set_control_status finishes in this step
SetStatusFinishes == upd.pc = "set_control_status" /\ upd'.pc = "idle"

ControlFields ==
    {"id", "title", "description", "prompt", "is_active", "created_at", "updated_at"}

\* The write of this step stores, under the id of the call, the record the call
\* read with the provided fields replaced and at most updated_at changed
\* besides, and touches no other control
WritesOnly(provided) ==
    /\ DOMAIN controls' = DOMAIN controls \cup {upd.id}
    /\ \A other \in DOMAIN controls \ {upd.id} : controls'[other] = controls[other]
    /\ \A f \in provided : controls'[upd.id][f] = upd.data[f]
    /\ \A f \in ControlFields \ (provided \cup {"updated_at"}) :
          /\ controls'[upd.id][f] = upd.control[f]
          /\ upd.id \in DOMAIN controls => controls'[upd.id][f] = controls[upd.id][f]

C10_ResponsesDeleted ==
    \A id \in deleted : \A r \in list_files(ai_responses) : r.control_id # id

\* The batch upload has just returned
UploadReturned == ret.op = "upload_multiple_documents"

\* The places in the batch of the files whose name is in a list of entries
PlacesOf(names) == {i \in 1..Len(ret.files) : \E k \in 1..Len(names) : names[k] = ret.files[i].filename}

\* A sequence of names is in the order of the batch
InBatchOrder(names) ==
    \A k \in 1..Len(names), l \in 1..Len(names) :
        k < l => \E i \in 1..Len(ret.files), j \in 1..Len(ret.files) :
                    i < j /\ ret.files[i].filename = names[k] /\ ret.files[j].filename = names[l]

\* C11: upload_multiple_documents returns a partition of its inputs (each file
\* in exactly one of uploaded_files and failed_files, in input order, the totals
\* adding up), and a file is in failed_files only for what is wrong with that
\* file or with the store or the parser on that file: a valid file beside an
\* invalid one is uploaded.
C11_UploadPartition ==
    UploadReturned =>
        LET r == ret.result
            up == [k \in 1..Len(r.uploaded_files) |-> r.uploaded_files[k].original_filename]
            down == [k \in 1..Len(r.failed_files) |-> r.failed_files[k].filename]
        IN  /\ PlacesOf(up) \cup PlacesOf(down) = 1..Len(ret.files)
            /\ PlacesOf(up) \cap PlacesOf(down) = {}
            /\ r.total_uploaded + r.total_failed = Len(ret.files)
            /\ r.total_uploaded = Len(up) /\ r.total_failed = Len(down)
            /\ InBatchOrder(up) /\ InBatchOrder(down)
            /\ \A k \in 1..Len(r.failed_files) :
                  LET error == r.failed_files[k].error
                  IN  \/ error[1] \in {"413", "415"}
                      \/ error[3] \in {"upload_file", "reducto"}

\* The batch evaluation has just returned
BatchReturned == ret.op = "process_multiple_documents"

\* C12: process_multiple_documents returns exactly one result per input pair,
\* result i being the one of input i, whichever units fail.
C12_OneResultPerInput ==
    BatchReturned =>
        /\ Len(ret.result) = Len(ret.documents)
        /\ \A i \in 1..Len(ret.result) : ret.result[i] = ret.results[i]

\* The units whose call to the language model is in flight
InFlight == {i \in 1..Len(batch.tasks) : batch.tasks[i].pc = "calling"}

\* C13: during a process_multiple_documents call at most 5 calls to the
\* language model are in flight; each of them holds one of the 5 permits, and
\* a unit that has ended holds none.
C13_AtMostFive ==
    batch.pc = "gather" =>
        /\ Cardinality(InFlight) <= 5
        /\ batch.semaphore + Cardinality(InFlight) = 5

\* five calls are in flight, a sixth unit waits, and a permit has been through
\* a release already
C13_Witness ==
    /\ batch.pc = "gather"
    /\ Cardinality(InFlight) = 5
    /\ \E i \in 1..Len(batch.tasks) : batch.tasks[i].pc = "waiting"
    /\ \E i \in 1..Len(batch.tasks) : batch.tasks[i].pc = "done" /\ batch.tasks[i].raised

\* C14: process_document hands every outcome of the language-model call back as
\* a response: status failed with the cause in error_message when the call
\* failed, status completed without error_message when it succeeded.
C14_FailureAsResponse ==
    batch.pc = "gather" =>
        \A i \in 1..Len(batch.tasks) :
            batch.tasks[i].pc = "done" =>
                LET result == batch.tasks[i].result
                IN  /\ result.ok
                    /\ IF batch.tasks[i].raised
                       THEN /\ result.response.status = FAILED
                            /\ result.response.error_message # None
                       ELSE /\ result.response.status = COMPLETED
                            /\ result.response.error_message = None

\* The (document, control) pairs of the view call whose response read has a
\* status that is no ProcessingStatus
CorruptPairs ==
    {ij \in (1..Len(ret.documents)) \X (1..Len(ret.controls)) :
        \E r \in ret.responses : /\ r.document_id = ret.documents[ij[1]].id
                                 /\ r.control_id = ret.controls[ij[2]].id
                                 /\ r.status \notin ProcessingStatus}

\* C15: with a corrupt response record stored, get_tabular_view still returns a
\* view, and the cell of the record's pair is the pending cell of an absent
\* response.
C15_CorruptSkipped ==
    (ViewCalled /\ CorruptPairs # {}) =>
        /\ ret.out = "view"
        /\ \A ij \in CorruptPairs :
              ret.result.rows[ij[1]].cells[ij[2]].status = PENDING

\* The cells of rows 1..n that are completed
RECURSIVE CompletedUpTo(_, _)
CompletedUpTo(rows, n) ==
    IF n = 0 THEN 0
    ELSE CompletedUpTo(rows, n - 1)
         + Cardinality({j \in 1..Len(rows[n].cells) : rows[n].cells[j].status = "completed"})

\* C16: overall_completion_percentage is 100.0 when total_cells is 0, otherwise
\* 100 * completed cells / total_cells up to the rounding to one decimal, and
\* it is 100.0 for a table that has cells only if every cell is completed.
\* (Percentages are in tenths: 1000 is 100.0.)
C16_OverallCompletion ==
    ret.op = "overall_completion_percentage" =>
        LET rows == ret.view.rows
            cells == CellsUpTo(rows, Len(rows))
            done == CompletedUpTo(rows, Len(rows))
        IN  /\ ret.total_cells = 0 => ret.result = 1000
            /\ ret.total_cells > 0 =>
                  /\ ret.result * ret.total_cells <= 1000 * done + ret.total_cells
                  /\ 1000 * done <= ret.result * ret.total_cells + ret.total_cells
            /\ (cells > 0 /\ ret.result = 1000) => done = cells

\* C17: a row's completion_percentage is 100 * completed cells / cells rounded
\* to one decimal, 0.0 for a row without cells, and only cells with status
\* completed count: 1 completed of 4 gives 25.0.  (In tenths: 250.)
C17_RowCompletion ==
    ret.op = "completion_percentage" =>
        LET cells == ret.row.cells
            n == Len(cells)
            done == Cardinality({j \in 1..n : cells[j].status = "completed"})
        IN  /\ n = 0 => ret.result = 0
            /\ n > 0 => /\ 2 * ret.result * n <= 2000 * done + n
                        /\ 2000 * done <= 2 * ret.result * n + n
            /\ (n = 4 /\ done = 1) => ret.result = 250

\* a row of four cells, one completed, one failed, was read as 25.0
C17_Witness ==
    /\ ret.op = "completion_percentage"
    /\ Len(ret.row.cells) = 4
    /\ Cardinality({j \in 1..4 : ret.row.cells[j].status = "completed"}) = 1
    /\ \E j \in 1..4 : ret.row.cells[j].status = "failed"
    /\ ret.result = 250

FinalMarks == {"?", ".", "!"}

\* C18: prompt normalisation appends '?' exactly when the trimmed prompt does
\* not end with '?', '.' or '!' and leaves it as trimmed otherwise; normalising
\* again changes nothing, every stored prompt ends with one of the three
\* marks, and submitting a stored prompt again stores the same prompt.
C18_PromptNormalised ==
    /\ [](ret.op = "validate_prompt_format" /\ ret.result.ok =>
            LET w == strip(ret.prompt)
                q == ret.result.prompt
            IN  /\ w[Len(w)] \in FinalMarks => q = w
                /\ w[Len(w)] \notin FinalMarks => q = w \o <<"?">>
                /\ ControlCreate(<<"t">>, None, q).prompt = q
                /\ ControlUpdate([prompt |-> q]).update_data.prompt = q)
    /\ [](\A id \in DOMAIN controls :
            controls[id].prompt[Len(controls[id].prompt)] \in FinalMarks)
    /\ [][(UpdateFinishes /\ upd.data = [prompt |-> upd.control.prompt]) =>
            (ret'.out = "control" /\ controls'[upd.id].prompt = upd.control.prompt)]_vars

\* a prompt given as "a" was stored as "a?", and an update has stored "a?" again
C18_Witness ==
    /\ ret.op = "update_control" /\ ret.out = "control"
    /\ ret.id \in DOMAIN controls
    /\ controls[ret.id].prompt = <<"a", "?">>
    /\ controls[ret.id].updated_at > controls[ret.id].created_at

\* a sequence of records whose created_at never increases
CreationDescending(seq) ==
    \A i, j \in 1..Len(seq) : i < j => seq[i].created_at >= seq[j].created_at

HoldsQuery(control, q) ==
    \/ contains(lower(q), lower(control.title))
    \/ control.description # None /\ contains(lower(q), lower(control.description))
    \/ contains(lower(q), lower(control.prompt))

\* C20: for every query and every stored set of controls, a description being
\* absent or not, search_controls returns without error, and what it returns
\* is exactly the active controls whose title, description or prompt contains
\* the query as a case-insensitive substring; no inactive control is returned.
C20_SearchActiveMatches ==
    ret.op = "search_controls" =>
        /\ ret.out = "list"
        /\ {ret.result[i].id : i \in 1..Len(ret.result)}
              = {id \in DOMAIN ret.store :
                    ret.store[id].is_active /\ HoldsQuery(ret.store[id], ret.query)}

StatusReturned == ret.op = "get_processing_status"

C22_ReadOnly ==
    [][rdr' # rdr =>
          /\ controls' = controls
          /\ documents' = documents
          /\ ai_responses' = ai_responses]_vars

\* a get_tabular_view has failed over a store that holds a response record,
\* which is still stored as the call read it
C22_Witness ==
    /\ ret.op = "get_tabular_view"
    /\ ret.out = "ValidationError"
    /\ ai_responses # <<>>
    /\ list_files(ai_responses) = ret.responses

\* What get_tabular_view makes of one state of the three buckets
ViewOf(cs, ds, rs) ==
    build_view(get_active_controls(cs), sorted_desc(list_files(ds)), list_files(rs))

\* The records a bucket held at time t, when records are only ever added
StoredBy(bucket, t) ==
    [k \in {k \in DOMAIN bucket :
               IF "created_at" \in DOMAIN bucket[k] THEN bucket[k].created_at <= t
               ELSE bucket[k].updated_at <= t} |-> bucket[k]]

ViewAt(t) == ViewOf(StoredBy(controls, t), StoredBy(documents, t), StoredBy(ai_responses, t))

C25_ParseIndependent ==
    UploadReturned =>
        /\ \A k \in 1..Len(ret.result.failed_files) :
              LET error == ret.result.failed_files[k].error
              IN  \/ error[1] \in {"413", "415"}
                  \/ error[3] = "upload_file"
        /\ Cardinality(upload.stored) >= Len(ret.result.uploaded_files)

\* C26: a control that was created and then updated through update_control,
\* also by an update that sets is_active to false, and that is stored when a
\* get_tabular_view starts, is among the controls of the view returned.
C26_UpdatedInView ==
    ViewReturned =>
        \A id \in DOMAIN ret.store :
            ret.store[id].updated_at > ret.store[id].created_at =>
                \E j \in 1..Len(ret.result.controls) : ret.result.controls[j].id = id

Successors(s) ==
    {t \in ProcessingStatus : validate_processing_status_transition(s, t).ok}

\* The statuses reached from those of S by at most n further legal changes
RECURSIVE ReachedIn(_, _)
ReachedIn(S, n) ==
    IF n = 0 THEN S ELSE ReachedIn(S \cup UNION {Successors(t) : t \in S}, n - 1)

\* The statuses reached from s by one or more legal changes
ReachedFrom(s) == ReachedIn(Successors(s), Cardinality(ProcessingStatus))

\* C28: no status is a dead end: whatever status a response is in, it has a
\* legal successor, completed and failed are both reached from it by legal
\* transitions, and when it is completed or failed it may go to regenerating
\* at once.
C28_NoDeadEnd ==
    \A k \in DOMAIN ai_responses :
        LET s == ai_responses[k].status
        IN  /\ Successors(s) # {}
            /\ {COMPLETED, FAILED} \subseteq ReachedFrom(s)
            /\ s \in {COMPLETED, FAILED} => REGENERATING \in Successors(s)

\* a completed response has just been sent to regenerating, and the other
\* response has failed
C28_Witness ==
    /\ ret.op = "change_status"
    /\ ret.current = COMPLETED /\ ret.new = REGENERATING /\ ret.result.ok
    /\ \E k \in DOMAIN ai_responses : ai_responses[k].status = FAILED
    /\ \E k \in DOMAIN ai_responses : ai_responses[k].status = REGENERATING

====
